---- MODULE Spec2Model ----
(***************************************************************************)
(* Model of ksniff's `kubectl sniff` command (pkg/cmd/sniff.go): the cobra *)
(* RunE handler Complete -> Validate -> Run, the presence probe, the       *)
(* conditional upload of the static tcpdump binary, and the capture relay  *)
(* to a file or to a wireshark process.                                    *)
(*                                                                         *)
(* The package ksniff/kube (PodExecuteCommand, PodUploadFile, Writer,      *)
(* NopWriter) is not part of the sources at hand; the outcomes of its      *)
(* calls are modelled from the specification's sections 4.1-4.3 as choices *)
(* of the environment (RemoteOutcomes, UploadOutcomes, LsOutcomes).        *)
(***************************************************************************)
EXTENDS Integers, Sequences, FiniteSets, TLC

VARIABLES
    args,        \* the command line of the invocations (flags and positionals)
    o,           \* the SniffOptions of the running invocation
    pc,          \* position of the main goroutine
    run,         \* number of invocations started so far
    calls,       \* remote requests issued by the running invocation, in order
    probe,       \* raw outcome and classification of the presence probe
    upl,         \* outcome of kube.PodUploadFile in the running invocation
    prov,        \* return of UploadTcpdumpIfMissing in the running invocation
    sink,        \* local destination opened by Run: none, file or pipe
    relay,       \* the ExecuteTcpdumpOnRemotePod call (goroutine in viewer mode)
    viewer,      \* the wireshark process started by cmd.Run
    result,      \* what RunE returned
    remoteFile,  \* the file at the remote tcpdump path of the target container
    uploads,     \* PodUploadFile calls of all invocations so far: their outcomes
    localFile,   \* the local static tcpdump binary: readable or missing
    outFile,     \* the output file on the local disk
    produced,    \* bytes the remote tcpdump has written to its standard output
    wire,        \* bytes in the remote command channel, not yet written locally
    pipe,        \* bytes in the viewer's stdin pipe, not yet read by the viewer
    viewed       \* bytes the viewer has read from its standard input

\* the capture stream of the running invocation
stream == <<produced, wire, pipe, viewed>>

vars == <<args, o, pc, run, calls, probe, upl, prov, sink, relay, viewer,
          result, remoteFile, uploads, localFile, outFile, stream>>

----------------------------------------------------------------------------
(* Bounds *)

MaxRuns == 2

\* bytes a capture produces at most
MaxBytes == 3

\* bytes the remote command channel holds before the remote writer blocks
WireCap == 1

\* bytes the viewer's stdin pipe holds before the local writer blocks
PipeCap == 1

----------------------------------------------------------------------------
(* Errors: a Go error is the sequence of its messages, outermost first;    *)
(* nil is the empty sequence.                                              *)

Nil == <<>>

Err(msg) == <<msg>>

\* github.com/pkg/errors: "If err is nil, Wrapf returns nil."
Wrapf(err, msg) == IF err = Nil THEN Nil ELSE <<msg>> \o err

ConnectionError   == Err("ConnectionError")
StreamInterrupted == Err("StreamInterrupted")
LocalIOError      == Err("LocalIOError")

----------------------------------------------------------------------------
(* Program constants *)

tcpdumpLocalPath  == "/tcpdump-static"
tcpdumpRemotePath == "/tmp/static-tcpdump"

----------------------------------------------------------------------------
(* The cluster the command talks to *)

KubeContexts == {"minikube"}

Pods == [n \in {"web-1", "job-1", "crash-1", "bare-1"} |->
           CASE n = "web-1"   -> [phase |-> "Running",   containers |-> <<"app", "sidecar">>]
             [] n = "job-1"   -> [phase |-> "Succeeded", containers |-> <<"main">>]
             [] n = "crash-1" -> [phase |-> "Failed",    containers |-> <<"main">>]
             [] n = "bare-1"  -> [phase |-> "Pending",   containers |-> <<>>]]

PodArgs       == DOMAIN Pods \cup {"ghost"}
NamespaceArgs == {"default", ""}
ContainerArgs == {"", "app", "sidecar", "nope"}
FilterArgs    == {"", "port 80"}
OutputArgs    == {"", "out.pcap"}
RemotePathArgs == {tcpdumpRemotePath, "/opt/tcpdump"}

\* the values of a captured byte
Bytes == {"a", "b"}

ExitCodes == {0, 1, 2}
StdErrs   == {"", "warning"}

Range(s) == {s[i] : i \in DOMAIN s}

\* clientset.CoreV1().Pods(ns).Get(name): the pods live in namespace default
PodGet(ns, name) ==
    IF ns = "default" /\ name \in DOMAIN Pods
    THEN [pod |-> Pods[name], err |-> Nil]
    ELSE [pod |-> [phase |-> "", containers |-> <<>>], err |-> Err("pods not found")]

\* the container of a request exists in the pod, so a channel to it can open
Reachable(req) ==
    /\ PodGet(req.ns, req.pod).err = Nil
    /\ req.container \in Range(PodGet(req.ns, req.pod).pod.containers)

\* outcomes of PodExecuteCommand over a remote command channel: an exit
\* status without error, or a transport failure
RemoteOutcomes(req) ==
    IF Reachable(req)
    THEN [exit : ExitCodes, err : {Nil}, stderr : StdErrs]
           \cup [exit : ExitCodes, err : {ConnectionError, StreamInterrupted}, stderr : {""}]
    ELSE [exit : ExitCodes, err : {ConnectionError}, stderr : {""}]

\* outcomes of `/bin/sh -c "ls -alt <path>"`: ls exits 0 exactly when the
\* path exists
LsOutcomes(req, file) ==
    {r \in RemoteOutcomes(req) : r.err = Nil => (r.exit = 0 <=> file # "absent")}

----------------------------------------------------------------------------
(* Initial state: no invocation has started *)

NoOptions ==
    [userSpecifiedPod |-> "", userSpecifiedFilter |-> "",
     userSpecifiedContainer |-> "", userSpecifiedNamespace |-> "",
     userSpecifiedOutputFile |-> "", userSpecifiedLocalTcpdumpPath |-> "",
     userSpecifiedRemoteTcpdumpPath |-> "", currentContext |-> ""]

NoProbe  == [done |-> FALSE, exit |-> 0, stderr |-> "", terr |-> Nil,
             isExist |-> FALSE, err |-> Nil]
NoUpload == [called |-> FALSE, exit |-> 0, err |-> Nil, opened |-> FALSE]
NoProv   == [returned |-> FALSE, err |-> Nil]
\* viewerAtEnd: the state of the viewer when PodExecuteCommand returned
NoRelay  == [state |-> "none", exit |-> 0, err |-> Nil, viewerAtEnd |-> "none"]
NoViewer == [state |-> "none", err |-> Nil]
NoResult == [returned |-> FALSE, err |-> Nil, by |-> "none"]
\* createdIn: the invocation whose os.Create made or truncated the file
NoOutFile == [exists |-> FALSE, bytes |-> <<>>, createdIn |-> 0]

Init ==
    /\ args \in [positional : {<<>>} \cup {<<p>> : p \in PodArgs},
                 namespace : NamespaceArgs,
                 container : ContainerArgs,
                 filter : FilterArgs,
                 output_file : OutputArgs,
                 remote_tcpdump_path : {tcpdumpRemotePath}]
    /\ localFile \in {"readable", "missing"}
    /\ outFile = NoOutFile
    /\ o = NoOptions
    /\ pc = "init"
    /\ run = 0
    /\ calls = <<>>
    /\ probe = NoProbe
    /\ upl = NoUpload
    /\ prov = NoProv
    /\ sink = "none"
    /\ relay = NoRelay
    /\ viewer = NoViewer
    /\ result = NoResult
    /\ remoteFile \in {"absent", "full"}
    /\ uploads = <<>>
    /\ produced = <<>>
    /\ wire = <<>>
    /\ pipe = <<>>
    /\ viewed = <<>>

----------------------------------------------------------------------------
(* NewCmdSniff: the flags and the RunE handler *)

\* NewSniffOptions and the flag defaults
NewSniffOptions ==
    [NoOptions EXCEPT
        !.userSpecifiedNamespace = args.namespace,
        !.userSpecifiedContainer = args.container,
        !.userSpecifiedFilter = args.filter,
        !.userSpecifiedOutputFile = args.output_file,
        !.userSpecifiedLocalTcpdumpPath = tcpdumpLocalPath,
        !.userSpecifiedRemoteTcpdumpPath = args.remote_tcpdump_path]

\* RunE returns err
Return(err, by) ==
    /\ result' = [returned |-> TRUE, err |-> err, by |-> by]
    /\ pc' = "returned"

\* the command is started: a first time, or again after the process exited
Invoke ==
    /\ pc \in {"init", "exited"}
    /\ run < MaxRuns
    /\ run' = run + 1
    /\ o' = NewSniffOptions
    /\ pc' = "complete"
    /\ calls' = <<>>
    /\ probe' = NoProbe
    /\ upl' = NoUpload
    /\ prov' = NoProv
    /\ sink' = "none"
    /\ relay' = NoRelay
    /\ viewer' = NoViewer
    /\ result' = NoResult
    /\ produced' = <<>>
    /\ wire' = <<>>
    /\ pipe' = <<>>
    /\ viewed' = <<>>
    /\ UNCHANGED <<args, remoteFile, uploads, localFile, outFile>>

Complete ==
    /\ pc = "complete"
    /\ IF Len(args.positional) < 1
       THEN /\ Return(Err("not enough arguments"), "complete")
            /\ o' = o
       ELSE \E cfgErr \in {Nil, Err("invalid configuration")},
               ctx \in KubeContexts \cup {""} :
              IF cfgErr # Nil
              THEN /\ Return(cfgErr, "complete")
                   /\ o' = [o EXCEPT !.userSpecifiedPod = args.positional[1]]
              ELSE IF ctx \notin KubeContexts
              THEN /\ Return(Err("context doesn't exist"), "complete")
                   /\ o' = [o EXCEPT !.userSpecifiedPod = args.positional[1]]
              ELSE /\ o' = [o EXCEPT !.userSpecifiedPod = args.positional[1],
                                     !.currentContext = ctx]
                   /\ pc' = "validate"
                   /\ result' = result
    /\ UNCHANGED <<localFile, outFile, stream, args, run, calls, probe, upl,
                   prov, sink, relay, viewer,
                   remoteFile, uploads>>

\* the error Validate returns, Nil when the target is accepted
ValidateErr(opts) ==
    LET got == PodGet(opts.userSpecifiedNamespace, opts.userSpecifiedPod) IN
    IF Len(opts.currentContext) = 0 THEN Err("context doesn't exist")
    ELSE IF opts.userSpecifiedNamespace = ""
    THEN Err("namespace value is empty should be custom or default")
    ELSE IF got.err # Nil THEN got.err
    ELSE IF got.pod.phase = "Succeeded" \/ got.pod.phase = "Failed"
    THEN Err("cannot sniff on a container in a completed pod")
    ELSE IF Len(got.pod.containers) < 1 THEN Err("no containers in specified pod")
    ELSE Nil

\* a Validate that takes the pod's last container when none is named
ResolveLastContainer(opts, pod) ==
    IF opts.userSpecifiedContainer = ""
    THEN [opts EXCEPT !.userSpecifiedContainer = pod.containers[Len(pod.containers)]]
    ELSE opts

\* Validate, once the pod is accepted: no container named, take the first
ResolveContainer(opts, pod) ==
    IF opts.userSpecifiedContainer = ""
    THEN [opts EXCEPT !.userSpecifiedContainer = pod.containers[1]]
    ELSE opts

Validate ==
    /\ pc = "validate"
    /\ LET err == ValidateErr(o)
           got == PodGet(o.userSpecifiedNamespace, o.userSpecifiedPod) IN
       IF err # Nil
       THEN /\ Return(err, "validate")
            /\ o' = o
       ELSE /\ o' = ResolveContainer(o, got.pod)
            /\ pc' = "run"
            /\ result' = result
    /\ UNCHANGED <<localFile, outFile, stream, args, run, calls, probe, upl,
                   prov, sink, relay, viewer,
                   remoteFile, uploads>>

----------------------------------------------------------------------------
(* UploadTcpdumpIfMissing and the presence probe *)

\* a probe that lists the default path instead of its parameter
ProbeRequestDefaultPath(opts, path) ==
    [kind |-> "probe",
     ns |-> opts.userSpecifiedNamespace,
     pod |-> opts.userSpecifiedPod,
     container |-> opts.userSpecifiedContainer,
     command |-> <<"/bin/sh", "-c", "ls -alt %s", tcpdumpRemotePath>>,
     src |-> "", dst |-> tcpdumpRemotePath,
     stdout |-> "Writer", stderr |-> "Writer"]

\* the ExecCommandRequest of CheckIfTcpdumpExistOnPod
ProbeRequest(opts, path) ==
    [kind |-> "probe",
     ns |-> opts.userSpecifiedNamespace,
     pod |-> opts.userSpecifiedPod,
     container |-> opts.userSpecifiedContainer,
     command |-> <<"/bin/sh", "-c", "ls -alt %s", path>>,
     src |-> "", dst |-> path,
     stdout |-> "Writer", stderr |-> "Writer"]

\* a probe that never reports the binary present
CheckNeverPresent(out) ==
    IF out.err # Nil THEN [isExist |-> FALSE, err |-> out.err]
    ELSE IF out.exit = 0 /\ out.stderr # ""
    THEN [isExist |-> FALSE, err |-> Err("failed to check for tcpdump")]
    ELSE [isExist |-> FALSE, err |-> Nil]

\* a probe that does not look at the error stream
CheckIgnoresStdErr(out) ==
    IF out.err # Nil THEN [isExist |-> FALSE, err |-> out.err]
    ELSE IF out.exit # 0 THEN [isExist |-> FALSE, err |-> Nil]
    ELSE [isExist |-> TRUE, err |-> Nil]

\* a probe that reports absent when the error stream is not empty
CheckStdErrAsAbsent(out) ==
    IF out.err # Nil THEN [isExist |-> FALSE, err |-> out.err]
    ELSE IF out.exit # 0 THEN [isExist |-> FALSE, err |-> Nil]
    ELSE IF out.stderr # "" THEN [isExist |-> FALSE, err |-> Nil]
    ELSE [isExist |-> TRUE, err |-> Nil]

\* what CheckIfTcpdumpExistOnPod returns for an outcome of PodExecuteCommand
CheckIfTcpdumpExistOnPod(out) ==
    IF out.err # Nil THEN [isExist |-> FALSE, err |-> out.err]
    ELSE IF out.exit # 0 THEN [isExist |-> FALSE, err |-> Nil]
    ELSE IF out.stderr # ""
    THEN [isExist |-> FALSE, err |-> Err("failed to check for tcpdump")]
    ELSE [isExist |-> TRUE, err |-> Nil]

\* a Run that goes on whatever UploadTcpdumpIfMissing returns
ProvisionedUnchecked(err) ==
    /\ prov' = [returned |-> TRUE, err |-> err]
    /\ pc' = "sink"
    /\ result' = result

\* UploadTcpdumpIfMissing returns err to Run, which returns it when non-nil
Provisioned(err) ==
    /\ prov' = [returned |-> TRUE, err |-> err]
    /\ IF err # Nil
       THEN Return(err, "run")
       ELSE /\ pc' = "sink"
            /\ result' = result

\* an UploadTcpdumpIfMissing that uploads whatever the probe reported
AlwaysUpload(isExist) == TRUE

\* UploadTcpdumpIfMissing uploads unless the probe reported the binary present
NeedsUpload(isExist) == ~isExist

\* Run calls UploadTcpdumpIfMissing, which probes for the remote binary
Probe ==
    /\ pc = "run"
    /\ LET req == ProbeRequest(o, o.userSpecifiedRemoteTcpdumpPath) IN
       \E out \in LsOutcomes(req, remoteFile) :
          LET r == CheckIfTcpdumpExistOnPod(out) IN
          /\ calls' = Append(calls, req)
          /\ probe' = [done |-> TRUE, exit |-> out.exit, stderr |-> out.stderr,
                       terr |-> out.err, isExist |-> r.isExist, err |-> r.err]
          /\ IF r.err # Nil THEN Provisioned(r.err)
             ELSE IF ~NeedsUpload(r.isExist) THEN Provisioned(Nil)
             ELSE /\ pc' = "upload"
                  /\ UNCHANGED <<prov, result>>
    /\ UNCHANGED <<localFile, outFile, stream, args, o, run, upl, sink,
                   relay, viewer, remoteFile, uploads>>

\* the UploadFileRequest of UploadTcpdumpIfMissing
UploadRequest(opts) ==
    [kind |-> "upload",
     ns |-> opts.userSpecifiedNamespace,
     pod |-> opts.userSpecifiedPod,
     container |-> opts.userSpecifiedContainer,
     command |-> <<>>,
     src |-> opts.userSpecifiedLocalTcpdumpPath,
     dst |-> opts.userSpecifiedRemoteTcpdumpPath,
     stdout |-> "NopWriter", stderr |-> "NopWriter"]

\* outcomes of kube.PodUploadFile and the remote file each leaves behind: an
\* unreadable local file fails before a channel is opened, an interrupted or
\* refused transfer may leave a partial file, a completed one the whole file
UploadOutcomes(req, file, local) ==
    IF local # "readable"
    THEN [exit : ExitCodes, err : {LocalIOError}, file : {file}, opened : {FALSE}]
    ELSE
    [exit : ExitCodes, err : {ConnectionError}, file : {file}, opened : {FALSE}]
      \cup IF Reachable(req)
           THEN [exit : ExitCodes, err : {StreamInterrupted},
                 file : {file, "partial"}, opened : {TRUE}]
                  \cup [exit : ExitCodes \ {0}, err : {Nil},
                        file : {file, "partial"}, opened : {TRUE}]
                  \cup [exit : {0}, err : {Nil}, file : {"full"}, opened : {TRUE}]
           ELSE {}

\* an UploadTcpdumpIfMissing that drops what kube.PodUploadFile returned
UploadResultDropped(exitCode, err) == Nil

\* the return of UploadTcpdumpIfMissing after kube.PodUploadFile returned
UploadResult(exitCode, err) ==
    IF err # Nil \/ exitCode # 0
    THEN Wrapf(err, "upload file command failed")
    ELSE Nil

\* the probe reported absent: UploadTcpdumpIfMissing uploads the binary
Upload ==
    /\ pc = "upload"
    /\ LET req == UploadRequest(o) IN
       \E out \in UploadOutcomes(req, remoteFile, localFile) :
          /\ calls' = Append(calls, req)
          /\ upl' = [called |-> TRUE, exit |-> out.exit, err |-> out.err,
                     opened |-> out.opened]
          /\ uploads' = Append(uploads, [run |-> run, exit |-> out.exit, err |-> out.err])
          /\ remoteFile' = out.file
          /\ Provisioned(UploadResult(out.exit, out.err))
    /\ UNCHANGED <<localFile, outFile, stream, args, o, run, probe, sink,
                   relay, viewer>>

----------------------------------------------------------------------------
(* Run after provisioning: the sink and the capture relay *)

\* file mode: os.Create, then ExecuteTcpdumpOnRemotePod(f) is called
CreateOutputFile ==
    /\ pc = "sink"
    /\ o.userSpecifiedOutputFile # ""
    /\ \E err \in {Nil, Err("open: permission denied")} :
          IF err # Nil
          THEN /\ Return(err, "run")
               /\ UNCHANGED <<sink, relay, outFile>>
          ELSE /\ sink' = "file"
               /\ outFile' = [exists |-> TRUE, bytes |-> <<>>, createdIn |-> run]
               /\ relay' = [relay EXCEPT !.state = "started"]
               /\ pc' = "capture"
               /\ result' = result
    /\ UNCHANGED <<localFile, stream, args, o, run, calls, probe, upl, prov,
                   viewer, remoteFile, uploads>>

\* viewer mode: exec.Command, cmd.StdinPipe, then go ExecuteTcpdumpOnRemotePod
StartRelayToViewer ==
    /\ pc = "sink"
    /\ o.userSpecifiedOutputFile = ""
    /\ \E err \in {Nil, Err("pipe: too many open files")} :
          IF err # Nil
          THEN /\ Return(err, "run")
               /\ UNCHANGED <<sink, relay>>
          ELSE /\ sink' = "pipe"
               /\ relay' = [relay EXCEPT !.state = "started"]
               /\ pc' = "viewer"
               /\ result' = result
    /\ UNCHANGED <<localFile, outFile, stream, args, o, run, calls, probe,
                   upl, prov, viewer, remoteFile, uploads>>

\* a request whose StdOut is the discarding writer
ExecuteTcpdumpRequestDiscarding(opts, stdOut) ==
    [kind |-> "capture",
     ns |-> opts.userSpecifiedNamespace,
     pod |-> opts.userSpecifiedPod,
     container |-> opts.userSpecifiedContainer,
     command |-> <<opts.userSpecifiedRemoteTcpdumpPath, "-U", "-w", "-">>,
     src |-> "", dst |-> "",
     stdout |-> "NopWriter", stderr |-> "NopWriter"]

\* the ExecCommandRequest of ExecuteTcpdumpOnRemotePod
ExecuteTcpdumpRequest(opts, stdOut) ==
    [kind |-> "capture",
     ns |-> opts.userSpecifiedNamespace,
     pod |-> opts.userSpecifiedPod,
     container |-> opts.userSpecifiedContainer,
     command |-> <<opts.userSpecifiedRemoteTcpdumpPath, "-U", "-w", "-">>,
     src |-> "", dst |-> "",
     stdout |-> stdOut, stderr |-> "NopWriter"]

\* ExecuteTcpdumpOnRemotePod issues kube.PodExecuteCommand: the channel opens
\* and the capture runs, or the connection fails at once
RelayOpen ==
    /\ relay.state = "started"
    /\ pc \in {"capture", "viewer", "wait", "returned"}
    /\ LET req == ExecuteTcpdumpRequest(o, sink) IN
       /\ calls' = Append(calls, req)
       /\ \/ /\ Reachable(req)
             /\ relay' = [relay EXCEPT !.state = "open"]
          \/ \E e \in ExitCodes :
                relay' = [state |-> "ended", exit |-> e, err |-> ConnectionError,
                          viewerAtEnd |-> viewer.state]
    /\ UNCHANGED <<localFile, outFile, stream, args, o, pc, run, probe, upl,
                   prov, sink, viewer, result,
                   remoteFile, uploads>>

\* kube.PodExecuteCommand returns in ExecuteTcpdumpOnRemotePod: the remote
\* command exited and its output has been relayed, or the transport failed
\* and what was in the channel is lost; a binary that is not wholly there
\* cannot exit with status 0
RelayEnd ==
    /\ relay.state = "open"
    /\ pc \in {"capture", "viewer", "wait", "returned"}
    /\ \E e \in ExitCodes, err \in {Nil, StreamInterrupted} :
          /\ (err = Nil /\ remoteFile # "full") => e # 0
          /\ err = Nil => wire = <<>>
          /\ wire' = <<>>
          /\ relay' = [state |-> "ended", exit |-> e, err |-> err,
                       viewerAtEnd |-> viewer.state]
    /\ UNCHANGED <<localFile, outFile, produced, pipe, viewed, args, o, pc,
                   run, calls, probe, upl, prov, sink, viewer,
                   result, remoteFile, uploads>>

\* what Run returns in file mode once ExecuteTcpdumpOnRemotePod has returned
FileModeResult(relayRec) == Nil

\* file mode: ExecuteTcpdumpOnRemotePod(f) returned, Run returns
FileModeReturn ==
    /\ pc = "capture"
    /\ relay.state = "ended"
    /\ Return(FileModeResult(relay), "run")
    /\ UNCHANGED <<localFile, outFile, stream, args, o, run, calls, probe,
                   upl, prov, sink, relay, viewer,
                   remoteFile, uploads>>

\* a Run that calls ExecuteTcpdumpOnRemotePod without `go`: it goes on to
\* cmd.Run only when the relay has returned
MainBlockedByRelay(relayRec) == relayRec.state # "ended"

\* viewer mode: the relay was started with `go`, so Run goes on to cmd.Run
\* without waiting for it
MainBlocked(relayRec) == FALSE

\* viewer mode, cmd.Run: the wireshark process starts, or cmd.Run returns the
\* start error, which Run returns
ViewerStart ==
    /\ pc = "viewer"
    /\ ~MainBlocked(relay)
    /\ \E err \in {Nil, Err("exec: wireshark: not found")} :
          IF err # Nil
          THEN /\ viewer' = [state |-> "failed", err |-> err]
               /\ Return(err, "run")
          ELSE /\ viewer' = [state |-> "running", err |-> Nil]
               /\ pc' = "wait"
               /\ result' = result
    /\ UNCHANGED <<localFile, outFile, stream, args, o, run, calls, probe,
                   upl, prov, sink, relay,
                   remoteFile, uploads>>

\* the wireshark process exits, cleanly or not
ViewerExit ==
    /\ viewer.state = "running"
    /\ \E err \in {Nil, Err("exit status 1")} :
          viewer' = [state |-> "exited", err |-> err]
    /\ UNCHANGED <<localFile, outFile, stream, args, o, pc, run, calls,
                   probe, upl, prov, sink, relay,
                   result, remoteFile, uploads>>

\* cmd.Run may return in viewer mode
ViewerDone(viewerRec, relayRec) == viewerRec.state = "exited"

\* a Run that reports the relay's error when it has one
ViewerModeResultOrRelay(viewerRec, relayRec) ==
    IF relayRec.state = "ended" /\ relayRec.err # Nil
    THEN relayRec.err
    ELSE viewerRec.err

\* what Run returns in viewer mode once cmd.Run has returned
ViewerModeResult(viewerRec, relayRec) == viewerRec.err

\* viewer mode: cmd.Run returns after the process exited, Run returns its error
ViewerModeReturn ==
    /\ pc = "wait"
    /\ ViewerDone(viewer, relay)
    /\ Return(ViewerModeResult(viewer, relay), "run")
    /\ UNCHANGED <<localFile, outFile, stream, args, o, run, calls, probe,
                   upl, prov, sink, relay, viewer,
                   remoteFile, uploads>>

\* what the end of the process does to the relay goroutine: nothing in Run
\* stops it, it dies with the process
ProcessExitRelay(relayRec) ==
    IF relayRec.state \in {"started", "open"}
    THEN [relayRec EXCEPT !.state = "killed"]
    ELSE relayRec

\* RunE has returned: the process exits
ProcessExit ==
    /\ pc = "returned"
    /\ pc' = "exited"
    /\ relay' = ProcessExitRelay(relay)
    /\ UNCHANGED <<localFile, outFile, stream, args, o, run, calls, probe,
                   upl, prov, sink, viewer, result,
                   remoteFile, uploads>>

----------------------------------------------------------------------------
(* The capture stream: remote tcpdump -> command channel -> StdOut writer  *)

\* the writer that ExecuteTcpdumpOnRemotePod gave the open relay as StdOut
CaptureStdOut == calls[Len(calls)].stdout

\* the remote tcpdump writes a byte to its standard output; it blocks while
\* the channel is full
Produce ==
    /\ relay.state = "open"
    /\ remoteFile = "full"
    /\ Len(produced) < MaxBytes
    /\ Len(wire) < WireCap
    /\ \E b \in Bytes :
          /\ produced' = Append(produced, b)
          /\ wire' = Append(wire, b)
    /\ UNCHANGED <<args, o, pc, run, calls, probe, upl, prov, sink, relay,
                   viewer, result, remoteFile, uploads, localFile, outFile,
                   pipe, viewed>>

\* kube.PodExecuteCommand writes the next byte of the channel to StdOut: the
\* output file takes it at once, the pipe takes it when it has room, a pipe
\* whose reader is gone fails the write and with it the command
Deliver ==
    /\ relay.state = "open"
    /\ pc \in {"capture", "viewer", "wait", "returned"}
    /\ wire # <<>>
    /\ CASE CaptureStdOut = "file" ->
              /\ outFile' = [outFile EXCEPT !.bytes = Append(@, Head(wire))]
              /\ wire' = Tail(wire)
              /\ UNCHANGED <<pipe, relay>>
         [] CaptureStdOut = "pipe" /\ viewer.state \in {"none", "running"} ->
              /\ Len(pipe) < PipeCap
              /\ pipe' = Append(pipe, Head(wire))
              /\ wire' = Tail(wire)
              /\ UNCHANGED <<outFile, relay>>
         [] CaptureStdOut = "pipe" /\ viewer.state \in {"exited", "failed"} ->
              /\ relay' = [state |-> "ended", exit |-> 0,
                           err |-> Err("write: broken pipe"),
                           viewerAtEnd |-> viewer.state]
              /\ wire' = <<>>
              /\ UNCHANGED <<outFile, pipe>>
         [] OTHER ->
              /\ wire' = Tail(wire)
              /\ UNCHANGED <<outFile, pipe, relay>>
    /\ UNCHANGED <<args, o, pc, run, calls, probe, upl, prov, sink, viewer,
                   result, remoteFile, uploads, localFile, produced, viewed>>

\* the wireshark process reads a byte from its standard input
ViewerRead ==
    /\ viewer.state = "running"
    /\ pipe # <<>>
    /\ viewed' = Append(viewed, Head(pipe))
    /\ pipe' = Tail(pipe)
    /\ UNCHANGED <<args, o, pc, run, calls, probe, upl, prov, sink, relay,
                   viewer, result, remoteFile, uploads, localFile, outFile,
                   produced, wire>>

Next ==
    \/ Invoke
    \/ Complete
    \/ Validate
    \/ Probe
    \/ Upload
    \/ CreateOutputFile
    \/ StartRelayToViewer
    \/ RelayOpen
    \/ RelayEnd
    \/ FileModeReturn
    \/ ViewerStart
    \/ ViewerExit
    \/ ViewerModeReturn
    \/ ProcessExit

Spec == Init /\ [][Next]_vars

\* the last invocation against a pod that can be sniffed, with the capture
\* stream; earlier invocations have exited and may have left the remote
\* binary and an output file behind
InitRelay ==
    /\ args \in [positional : {<<"web-1">>},
                 namespace : {"default"},
                 container : {"", "sidecar"},
                 filter : {"port 80"},
                 output_file : OutputArgs,
                 remote_tcpdump_path : RemotePathArgs]
    /\ localFile = "readable"
    /\ outFile \in {NoOutFile, [exists |-> TRUE, bytes |-> <<"b">>, createdIn |-> 0]}
    /\ o = NoOptions
    /\ pc = "init"
    /\ run = MaxRuns - 1
    /\ calls = <<>>
    /\ probe = NoProbe
    /\ upl = NoUpload
    /\ prov = NoProv
    /\ sink = "none"
    /\ relay = NoRelay
    /\ viewer = NoViewer
    /\ result = NoResult
    /\ remoteFile \in {"absent", "partial", "full"}
    /\ uploads = <<>>
    /\ produced = <<>>
    /\ wire = <<>>
    /\ pipe = <<>>
    /\ viewed = <<>>

NextRelay ==
    \/ Next
    \/ Produce
    \/ Deliver
    \/ ViewerRead

SpecRelay == InitRelay /\ [][NextRelay]_vars

\* the Go scheduler runs the relay goroutine and the main goroutine, and the
\* viewer keeps reading its input
SpecRelayFair ==
    /\ SpecRelay
    /\ WF_vars(Deliver)
    /\ WF_vars(ViewerRead)
    /\ WF_vars(ViewerStart)

----------------------------------------------------------------------------
(* Properties *)

IsProbeError ==
    probe.done /\ probe.terr = Nil /\ probe.exit = 0 /\ probe.stderr # ""

CaptureCalls == {i \in DOMAIN calls : calls[i].kind = "capture"}

UploadSucceeded(u) == u.exit = 0 /\ u.err = Nil

\* C1: an upload that completes with a non-zero exit status, with or without
\* a transport error, makes UploadTcpdumpIfMissing return a non-nil error,
\* Run returns it, and no capture command is launched in that invocation.
C1_NonZeroUploadIsFatal ==
    (upl.called /\ upl.exit # 0) =>
        /\ prov.returned /\ prov.err # Nil
        /\ result.returned /\ result.err = prov.err
        /\ CaptureCalls = {}

\* C2 as stated: two invocations in sequence against the same container
\* perform at most one upload in total.
C2_AtMostOneUploadInTwoRuns ==
    \A r \in 1..MaxRuns :
        Cardinality({i \in DOMAIN uploads : uploads[i].run \in {r, r + 1}}) <= 1

\* C2 (amended): invocations in sequence against the same container perform
\* at most one upload that succeeds; once an upload has succeeded (exit status
\* 0, no error) no later invocation uploads again, so that when the first
\* run's upload succeeds exactly one upload call is made.
C2_NoUploadAfterSuccessfulUpload ==
    \A i \in DOMAIN uploads : UploadSucceeded(uploads[i]) => i = Len(uploads)

\* the second run found the binary that the first run uploaded
C2_Witness ==
    /\ run = 2
    /\ probe.done /\ probe.isExist
    /\ Len(uploads) = 1
    /\ uploads[1].run = 1 /\ UploadSucceeded(uploads[1])

\* C3: the probe reports present for exit status 0 with an empty error
\* stream, absent without error for every non-zero exit status whatever the
\* error stream holds, a non-nil error for exit status 0 with a non-empty
\* error stream, and a non-nil error for a transport error.
C3_ProbeClassification ==
    probe.done =>
        /\ (probe.terr = Nil /\ probe.exit = 0 /\ probe.stderr = "")
              => (probe.isExist /\ probe.err = Nil)
        /\ (probe.terr = Nil /\ probe.exit # 0)
              => (~probe.isExist /\ probe.err = Nil)
        /\ (probe.terr = Nil /\ probe.exit = 0 /\ probe.stderr # "")
              => (~probe.isExist /\ probe.err # Nil)
        /\ probe.terr # Nil
              => (~probe.isExist /\ probe.err # Nil)

\* the listing exited with status 0 and wrote to its error stream
C3_Witness == IsProbeError /\ ~probe.isExist /\ probe.err # Nil

\* C4 as stated: after an inconclusive probe the invocation does not end
\* without the upload having been attempted.
C4_ProbeErrorAttemptsUpload ==
    (IsProbeError /\ result.returned) => upl.called

\* C4 (amended): an inconclusive probe (exit status 0 with error output) makes
\* UploadTcpdumpIfMissing return the probe's error without attempting the
\* upload, and Run returns that error without launching the capture.
C4_ProbeErrorAborts ==
    IsProbeError =>
        /\ prov.returned /\ prov.err = Err("failed to check for tcpdump")
        /\ result.returned /\ result.err = prov.err
        /\ ~upl.called
        /\ \A i \in DOMAIN calls : calls[i].kind = "probe"
        /\ relay.state = "none"

\* Run has returned the error of an inconclusive probe
C4_Witness ==
    IsProbeError /\ pc = "returned" /\ result.err # Nil /\ Len(calls) = 1

\* C5: in viewer mode Run does not return before the viewer process has
\* ended, what it returns is the viewer's own result, and the relay's error
\* is not the result.
C5_ViewerDecidesResult ==
    sink = "pipe" =>
        /\ result.returned => (viewer.state \in {"exited", "failed"}
                                 /\ result.err = viewer.err)
        /\ viewer.state \in {"none", "running"} => ~result.returned

\* the viewer exited cleanly, the relay had failed while it ran, Run returned nil
C5_Witness ==
    /\ sink = "pipe" /\ pc = "returned"
    /\ viewer.state = "exited" /\ viewer.err = Nil
    /\ relay.state = "ended" /\ relay.err # Nil /\ relay.viewerAtEnd = "running"
    /\ result.err = Nil

\* C6: in file mode the result of Run is the relay's completion status: nil
\* only if the capture command completed without a transport error, and an
\* error when the relay reports a transport failure or a failing status.
C6_FileModeResultIsRelayStatus ==
    (sink = "file" /\ result.returned) =>
        /\ relay.state = "ended"
        /\ result.err = Nil => relay.err = Nil
        /\ (relay.err # Nil \/ relay.exit # 0) => result.err # Nil

\* C7: the capture command is the remote binary path, the arguments for
\* unbuffered output to standard output, and the user's filter expression;
\* its output goes to the chosen destination and its error stream is dropped.
C7_CaptureCommandCarriesFilter ==
    \A i \in CaptureCalls :
        /\ calls[i].command[1] = o.userSpecifiedRemoteTcpdumpPath
        /\ {"-U", "-w", "-"} \subseteq Range(calls[i].command)
        /\ o.userSpecifiedFilter # "" => o.userSpecifiedFilter \in Range(calls[i].command)
        /\ calls[i].stdout = sink /\ sink \in {"file", "pipe"}
        /\ calls[i].stderr = "NopWriter"

\* the fault of the target named on the command line, if any
TargetFault ==
    IF Len(args.positional) < 1 \/ args.namespace # "default" THEN "none"
    ELSE LET got == PodGet(args.namespace, args.positional[1]) IN
         IF got.err # Nil THEN "no such pod"
         ELSE IF got.pod.phase \in {"Succeeded", "Failed"} THEN "terminal phase"
         ELSE IF Len(got.pod.containers) < 1 THEN "no containers"
         ELSE IF args.container # "" /\ args.container \notin Range(got.pod.containers)
         THEN "no such container"
         ELSE "none"

\* C8: a pod that does not exist, a pod in a terminal phase, a pod without
\* containers and a named container that the pod does not have each end the
\* invocation in Validate with an error of their own, and no remote request
\* (probe, upload, capture) is issued.
C8_ValidationFailsFast ==
    TargetFault # "none" =>
        /\ calls = <<>>
        /\ pc \in {"init", "complete", "validate", "returned", "exited"}
        /\ (result.returned /\ result.by # "complete") =>
              /\ result.by = "validate"
              /\ result.err # Nil
              /\ \A f \in {"no such pod", "terminal phase", "no containers",
                           "no such container"} \ {TargetFault} :
                    \A a \in [positional : {<<p>> : p \in PodArgs},
                              namespace : {"default"}, container : ContainerArgs] :
                       LET got == PodGet(a.namespace, a.positional[1])
                           fa == IF got.err # Nil THEN "no such pod"
                                 ELSE IF got.pod.phase \in {"Succeeded", "Failed"}
                                 THEN "terminal phase"
                                 ELSE IF Len(got.pod.containers) < 1 THEN "no containers"
                                 ELSE "other"
                       IN fa = f =>
                            result.err # ValidateErr(
                                [NoOptions EXCEPT
                                   !.userSpecifiedPod = a.positional[1],
                                   !.userSpecifiedNamespace = a.namespace,
                                   !.userSpecifiedContainer = a.container,
                                   !.currentContext = "minikube"])

\* C9: in viewer mode, once Run has stopped waiting for the viewer (it exited
\* or did not start), the relay's remote channel is not open any more.
C9_RelayClosedWhenViewerEnds ==
    (sink = "pipe" /\ result.returned /\ viewer.state \in {"exited", "failed"})
        => relay.state # "open"

\* C10: Run returns a non-nil error when the probe or the upload had a
\* transport error, when the capture relay fails in file mode, and when the
\* capture relay fails in viewer mode before the viewer has exited.
C10_NoFatalErrorSwallowed ==
    (result.returned /\ result.by = "run") =>
        /\ probe.terr # Nil => result.err # Nil
        /\ (upl.called /\ upl.err # Nil) => result.err # Nil
        /\ (relay.state = "ended" /\ relay.err # Nil
              /\ (sink = "file" \/ relay.viewerAtEnd \in {"none", "running"}))
             => result.err # Nil

\* the running invocation has passed Validate
Validated ==
    \/ pc \in {"run", "upload", "sink", "capture", "viewer", "wait"}
    \/ pc \in {"returned", "exited"} /\ result.by = "run"

\* the container the command line resolves to in an accepted pod
ResolvedContainer ==
    IF args.container = ""
    THEN Pods[args.positional[1]].containers[1]
    ELSE args.container

\* C13: after a successful Validate the container is the pod's first
\* container when none was given and the given one otherwise, and the probe,
\* the upload and the capture all address that container.
C13_ContainerResolved ==
    Validated =>
        /\ o.userSpecifiedContainer = ResolvedContainer
        /\ \A i \in DOMAIN calls : calls[i].container = ResolvedContainer

\* no container was named: probe, upload and capture went to the first one
C13_Witness ==
    /\ args.container = "" /\ Validated
    /\ o.userSpecifiedContainer = "app"
    /\ {calls[i].kind : i \in DOMAIN calls} = {"probe", "upload", "capture"}

\* the kinds of the requests issued so far, in order
CallKinds == [i \in DOMAIN calls |-> calls[i].kind]

C16_UploadOnlyWhenAbsent ==
    /\ Cardinality({i \in DOMAIN calls : calls[i].kind = "upload"}) <= 1
    /\ upl.called <=> (\E i \in DOMAIN calls : calls[i].kind = "upload")
    /\ upl.called => (probe.done /\ ~probe.isExist /\ probe.err = Nil)
    /\ (probe.done /\ probe.isExist) =>
          /\ ~upl.called
          /\ pc # "upload"
          /\ prov.returned /\ prov.err = Nil

\* the probe reported present and the capture followed it directly
C16_Witness ==
    probe.done /\ probe.isExist /\ CallKinds = <<"probe", "capture">>

\* the bytes that have reached the sink of the running invocation
SinkBytes == IF sink = "file" THEN outFile.bytes ELSE viewed \o pipe

\* C11: the bytes at the sink (output file or viewer input) after a completed
\* capture run are exactly the bytes the remote capture command produced, in
\* the same order; while the capture runs, the sink and the channel together
\* hold exactly what was produced.
C11_ByteExactRelay ==
    /\ (sink # "none" /\ relay.state = "ended" /\ relay.err = Nil)
          => SinkBytes = produced
    /\ (sink # "none" /\ relay.state = "open")
          => SinkBytes \o wire = produced

\* a capture into a file completed with two different bytes, in order
C11_Witness ==
    /\ sink = "file" /\ relay.state = "ended" /\ relay.err = Nil
    /\ Len(produced) >= 2 /\ produced[1] # produced[2]
    /\ outFile.bytes = produced

\* C12: with a viewer that reads slowly, the relay loses and reorders no
\* byte, and every byte the remote command has produced reaches the viewer's
\* input, unless the viewer has ended or the relay's channel is gone.
C12_NoLossUnderBackpressure ==
    /\ []((sink = "pipe" /\ relay.state = "open")
             => viewed \o pipe \o wire = produced)
    /\ \A k \in 1..MaxBytes :
          (sink = "pipe" /\ Len(produced) >= k)
             ~> \/ Len(viewed \o pipe) >= k
                \/ viewer.state \in {"exited", "failed"}
                \/ relay.state # "open"

\* the pipe and the channel are full and the viewer has read before
C12_Witness ==
    /\ sink = "pipe" /\ relay.state = "open" /\ viewer.state = "running"
    /\ Len(pipe) = PipeCap /\ Len(wire) = WireCap
    /\ viewed # <<>>

\* C14 as stated: with the local binary missing no remote request is issued
\* and the invocation fails with the local I/O error.
C14_LocalIOErrorBeforeAnyRemoteCall ==
    localFile = "missing" =>
        /\ calls = <<>>
        /\ (result.returned /\ result.by = "run") =>
              result.err = Wrapf(LocalIOError, "upload file command failed")

\* C14 (amended): with the local binary missing, an invocation whose probe
\* reported absent fails with the local I/O error after the probe, before an
\* upload channel is opened, and launches no capture.
C14_LocalIOErrorAfterProbe ==
    localFile = "missing" =>
        /\ (probe.done /\ probe.err = Nil /\ ~probe.isExist /\ pc # "upload")
              => upl.called
        /\ upl.called =>
              /\ upl.err = LocalIOError /\ ~upl.opened
              /\ CallKinds = <<"probe", "upload">>
              /\ result.returned
              /\ result.err = Wrapf(LocalIOError, "upload file command failed")
              /\ relay.state = "none" /\ sink = "none"
              /\ remoteFile = "absent"

\* the upload failed on the missing local binary and Run returned the error
C14_Witness ==
    localFile = "missing" /\ upl.called /\ pc = "returned" /\ result.err # Nil

\* the remote path a request names
RequestPath(req) ==
    CASE req.kind = "probe"   -> req.command[4]
      [] req.kind = "upload"  -> req.dst
      [] req.kind = "capture" -> req.command[1]

\* C17: all requests of an invocation address the namespace, the pod and the
\* container validation resolved, and the path probed, the path uploaded to
\* and the path executed are the configured remote binary path.
C17_TargetImmutable ==
    /\ Validated =>
          /\ o.userSpecifiedNamespace = args.namespace
          /\ o.userSpecifiedPod = args.positional[1]
          /\ o.userSpecifiedContainer = ResolvedContainer
          /\ o.userSpecifiedRemoteTcpdumpPath = args.remote_tcpdump_path
    /\ \A i \in DOMAIN calls :
          /\ calls[i].ns = args.namespace
          /\ calls[i].pod = args.positional[1]
          /\ calls[i].container = ResolvedContainer
          /\ RequestPath(calls[i]) = args.remote_tcpdump_path
          /\ calls[i].kind = "probe" => calls[i].dst = args.remote_tcpdump_path

\* probe, upload and capture were issued for a remote path given with -r
C17_Witness ==
    /\ args.remote_tcpdump_path # tcpdumpRemotePath
    /\ CallKinds = <<"probe", "upload", "capture">>

\* the errors of os.Create and cmd.StdinPipe
SinkErrs == {Err("open: permission denied"), Err("pipe: too many open files")}

\* C18: when UploadTcpdumpIfMissing returns an error, Run returns it and has
\* neither created or truncated the output file nor created the viewer or its
\* pipe; when creating the output file or the pipe fails, Run returns that
\* error and launches no capture.
C18_SinksAfterProvisioning ==
    /\ (prov.returned /\ prov.err # Nil) =>
          /\ result.returned /\ result.err = prov.err
          /\ sink = "none"
          /\ outFile.createdIn # run
          /\ viewer.state = "none"
    /\ (result.returned /\ result.err \in SinkErrs) =>
          /\ prov.returned /\ prov.err = Nil
          /\ CaptureCalls = {}
          /\ relay.state = "none"
          /\ sink = "none"

\* the second run failed in provisioning and left the first run's file alone
C18_Witness ==
    /\ run = 2 /\ prov.returned /\ prov.err # Nil
    /\ args.output_file # "" /\ outFile.exists /\ outFile.createdIn = 1
====
